---- MODULE Spec2Model ----
(***************************************************************************)
(* Gateway Service (cloudrun-service2service/gateway-service/main.py).     *)
(*                                                                         *)
(* The gateway handles one inbound request at a time per worker and keeps  *)
(* no state between requests; the two downstream base URLs are module      *)
(* globals read once from the environment.  A handler calls the forwarder  *)
(* make_authenticated_request zero, one or two times.  The forwarder talks *)
(* to two external collaborators, the identity token provider and the      *)
(* downstream HTTP service, whose outcomes are chosen nondeterministically.*)
(*                                                                         *)
(* Text is modelled as a sequence of chunks: the chunk "/" is the          *)
(* delimiter character, every other chunk is a piece of text that holds no *)
(* "/".  str.split('/') acts on that representation exactly.               *)
(***************************************************************************)
EXTENDS Integers, Sequences, FiniteSets, TLC

VARIABLES
    USER_SERVICE_URL,   \* module global, main.py:22 (<< >> is the empty string)
    ORDER_SERVICE_URL,  \* module global, main.py:23
    request,            \* the inbound request being handled
    pc,                 \* where the handler stands: idle, token, http, done
    call,               \* the forwarder invocation in progress
    result,             \* the handler's local dict `result`
    errors,             \* aggregate_data's local list `errors`
    response,           \* what the handler returned: status and JSON body
    log                 \* what the collaborators saw, in order, for this request

vars == <<USER_SERVICE_URL, ORDER_SERVICE_URL, request, pc, call, result,
          errors, response, log>>

----------------------------------------------------------------------------
(* Bounds and input domains *)

\* longest path (in chunks) appended to a base URL in a direct forwarder call
MaxPathLen == 3

Empty == << >>

\* values of the two environment variables: unset, two well-formed base
\* URLs (without and with a port), and a value without a scheme
ConfigUrls ==
    { Empty,
      <<"https:", "/", "/", "svc.run.app">>,
      <<"http:", "/", "/", "localhost:8081">>,
      <<"localhost:8081">> }

UserIds == {"1", "42"}

\* JSON documents a downstream service may send
Payloads == {"doc1", "doc2"}

\* status codes of the final downstream response: success, not found and
\* server errors (requests follows redirects, so no 3xx is listed)
Statuses == {200, 201, 404, 500, 503}

\* inbound request bodies of POST /api/orders
Bodies == {"json", "absent", "malformed"}

Endpoints ==
    {"health", "get_users", "get_user", "get_orders", "create_order",
     "aggregate_data", "get_user_orders", "get_user_orders_direct"}

\* methods a direct caller may hand to the forwarder
Methods == {"GET", "POST", "DELETE"}

Schemes == {"https:", "http:"}
Hosts == {"svc.run.app", "localhost:8081"}
Bases == { <<s, "/", "/", h>> : s \in Schemes, h \in Hosts }
PathChunks == {"/", "users", "?q=a"}

RECURSIVE SeqsUpTo(_, _)
SeqsUpTo(S, n) ==
    IF n = 0 THEN { Empty }
    ELSE LET shorter == SeqsUpTo(S, n - 1)
         IN  shorter \cup { Append(s, x) : s \in shorter, x \in S }

\* a path is empty or starts with "/"; segments, and a query after them, may
\* themselves hold "/"
Paths == { p \in SeqsUpTo(PathChunks, MaxPathLen) : p = Empty \/ p[1] = "/" }

----------------------------------------------------------------------------
(* Values *)

Exc(type, status) == [type |-> type, status |-> status]
NoExc == Exc("", 0)

\* an error string: the fixed text, the path parameter and the exception
\* interpolated into it
Msg(text, id, exc) == [text |-> text, id |-> id, exc |-> exc]

Str(e) == Msg("str(e)", "", e)

NoCall == [url |-> Empty, method |-> "", audience |-> Empty, k |-> 0]
NoResponse == [status |-> 0, body |-> Empty]

\* what a collaborator produced: kind is "response", "token" or "failure"
Out(kind, status, json, data) ==
    [kind |-> kind, status |-> status, json |-> json, data |-> data]
NoOut == Out("", 0, FALSE, "")

\* one entry of the log: the forwarder was called / returned / raised (call k
\* of the handler), or a collaborator was called for it and produced `out`
Ev(ev, k, target, method, out) ==
    [ev |-> ev, k |-> k, target |-> target, method |-> method, out |-> out]

----------------------------------------------------------------------------
(* make_authenticated_request: audience derivation *)

RECURSIVE Split(_)
Split(s) ==
    IF \A i \in 1..Len(s) : s[i] # "/" THEN <<s>>
    ELSE LET i == CHOOSE j \in 1..Len(s) :
                      s[j] = "/" /\ \A h \in 1..(j - 1) : s[h] # "/"
         IN  <<SubSeq(s, 1, i - 1)>> \o Split(SubSeq(s, i + 1, Len(s)))

\* url.split('/')[2] raises IndexError when there are fewer than 3 pieces
AudienceRaises(url) == Len(Split(url)) < 3

\* variant: the audience is the URL up to its last "/"
Audience_up_to_last_slash(url) ==
    LET last == CHOOSE j \in 1..Len(url) :
                    url[j] = "/" /\ \A h \in (j + 1)..Len(url) : url[h] # "/"
    IN  SubSeq(url, 1, last - 1)

Audience(url) == Split(url)[1] \o <<"/", "/">> \o Split(url)[3]

\* response.raise_for_status() raises HTTPError for 4xx and 5xx
RaisesForStatus(status) == 400 <= status /\ status < 600

\* requests refuses a URL without a scheme before it connects
HasScheme(url) == Len(url) >= 1 /\ url[1] \in Schemes

----------------------------------------------------------------------------
(* Handler-local state threaded through a handler: st = [result, errors, log] *)

Locals(res, errs, lg) == [result |-> res, errors |-> errs, log |-> lg]

Logged(st, e) == [st EXCEPT !.log = Append(@, e)]

\* `return jsonify(body), status`
Finish(st, status, body) ==
    [pc |-> "done", call |-> NoCall, result |-> st.result, errors |-> st.errors,
     response |-> [status |-> status, body |-> body], log |-> st.log]

\* flow is suspended at an external call of the forwarder
Suspended(st, at, c) ==
    [pc |-> at, call |-> c, result |-> st.result, errors |-> st.errors,
     response |-> NoResponse, log |-> st.log]

Relay(target, data) ==
    [source |-> "gateway-service (Python)", target |-> target, data |-> data]

Configured(url) == url # Empty

RECURSIVE make_authenticated_request(_, _, _, _, _)

----------------------------------------------------------------------------
(* What each handler does with the forwarder's result or exception *)

get_users_return(req, st, data) == Finish(st, 200, Relay("user-service (Go)", data))
get_users_except(req, st, e) == Finish(st, 500, [error |-> Str(e)])

get_user_return(req, st, data) == Finish(st, 200, Relay("user-service (Go)", data))
get_user_except(req, st, e) == Finish(st, 500, [error |-> Str(e)])

get_orders_return(req, st, data) ==
    Finish(st, 200, Relay("order-service (Node.js)", data))
get_orders_except(req, st, e) == Finish(st, 500, [error |-> Str(e)])

\* variant: the default status instead of 201
create_order_return_200(req, st, data) ==
    Finish(st, 200, Relay("order-service (Node.js)", data))

create_order_return(req, st, data) ==
    Finish(st, 201, Relay("order-service (Node.js)", data))
create_order_except(req, st, e) == Finish(st, 500, [error |-> Str(e)])

\* aggregate_data, lines 214-217
aggregate_respond(req, st) ==
    Finish(st, 200,
           IF st.errors # Empty THEN st.result @@ ("errors" :> st.errors)
           ELSE st.result)

aggregate_orders_return(req, st, data) ==
    aggregate_respond(req,
        [st EXCEPT !.result.aggregated_data =
            @ @@ ("orders" :> [service |-> "order-service (Node.js)",
                               data |-> data])])

\* variant: a failing orders call aborts the aggregate with a 500
aggregate_orders_except_abort(req, st, e) == Finish(st, 500, [error |-> Str(e)])

aggregate_orders_except(req, st, e) ==
    aggregate_respond(req,
        [st EXCEPT !.errors =
            Append(@, Msg("Order service error: {str(e)}", "", e))])

\* aggregate_data, lines 201-212
aggregate_orders(req, st) ==
    IF Configured(ORDER_SERVICE_URL)
    THEN make_authenticated_request(req, st,
             ORDER_SERVICE_URL \o <<"/", "orders">>, "GET", 2)
    ELSE aggregate_respond(req,
             [st EXCEPT !.errors =
                 Append(@, Msg("ORDER_SERVICE_URL not configured", "", NoExc))])

aggregate_users_return(req, st, data) ==
    aggregate_orders(req,
        [st EXCEPT !.result.aggregated_data =
            @ @@ ("users" :> [service |-> "user-service (Go)", data |-> data])])

\* variant: a failing users call is swallowed, nothing is appended to errors
aggregate_users_except_swallow(req, st, e) == aggregate_orders(req, st)

aggregate_users_except(req, st, e) ==
    aggregate_orders(req,
        [st EXCEPT !.errors =
            Append(@, Msg("User service error: {str(e)}", "", e))])

get_user_orders_return(req, st, data) ==
    Finish(st, 200,
           st.result @@ [flow |-> "Gateway -> User Service -> Order Service",
                         data |-> data,
                         mesh_path |-> <<"gateway-service (Python)",
                                         "user-service (Go)",
                                         "order-service (Node.js)">>])

\* variant: no special case for 404 (as in get_user)
get_user_orders_except_generic(req, st, e) == Finish(st, 500, [error |-> Str(e)])

get_user_orders_except(req, st, e) ==
    IF e.type = "HTTPError"
    THEN IF e.status = 404
         THEN Finish(st, 404, [error |-> Msg("User {user_id} not found", req.id, NoExc)])
         ELSE Finish(st, 500, [error |-> Str(e)])
    ELSE Finish(st, 500, [error |-> Str(e)])

\* get_user_orders_direct, lines 282-289
direct_user_return(req, st, data) ==
    make_authenticated_request(req,
        [st EXCEPT !.result =
            @ @@ [user |-> [service |-> "user-service (Go)", data |-> data]]],
        ORDER_SERVICE_URL \o <<"/", "orders", "/", "user", "/", req.id>>, "GET", 2)

\* get_user_orders_direct, lines 290-296
direct_orders_return(req, st, data) ==
    Finish(st, 200,
           st.result @@ [orders |-> [service |-> "order-service (Node.js)",
                                     data |-> data]])

\* variant: the first call has a try block of its own, so that its failure
\* does not stop the second call (as in aggregate_data)
direct_except_continue(req, st, e) ==
    IF \A i \in 1..Len(st.log) : st.log[i].k # 2
    THEN make_authenticated_request(req, st,
             ORDER_SERVICE_URL \o <<"/", "orders", "/", "user", "/", req.id>>,
             "GET", 2)
    ELSE Finish(st, IF e.type = "HTTPError" /\ e.status = 404 THEN 404 ELSE 500,
                [error |-> Str(e)])

\* variant: the error is added to the partial result instead of replacing it
direct_except_keep_partial(req, st, e) ==
    IF e.type = "HTTPError" /\ e.status = 404
    THEN Finish(st, 404,
                st.result @@ [error |-> Msg("User {user_id} not found", req.id, NoExc)])
    ELSE Finish(st, 500, st.result @@ [error |-> Str(e)])

\* one except clause serves both calls of get_user_orders_direct
get_user_orders_direct_except(req, st, e) ==
    IF e.type = "HTTPError"
    THEN IF e.status = 404
         THEN Finish(st, 404, [error |-> Msg("User {user_id} not found", req.id, NoExc)])
         ELSE Finish(st, 500, [error |-> Str(e)])
    ELSE Finish(st, 500, [error |-> Str(e)])

\* a caller outside the handlers (a direct call of the forwarder)
forward_done(req, st) == Finish(st, 0, Empty)

\* the forwarder returns `data` to the handler that called it (call k)
Return(req, st0, k, data) ==
    LET st == Logged(st0, Ev("return", k, Empty, "", NoOut))
    IN  CASE req.ep = "get_users" -> get_users_return(req, st, data)
          [] req.ep = "get_user" -> get_user_return(req, st, data)
          [] req.ep = "get_orders" -> get_orders_return(req, st, data)
          [] req.ep = "create_order" -> create_order_return(req, st, data)
          [] req.ep = "aggregate_data" ->
                IF k = 1 THEN aggregate_users_return(req, st, data)
                ELSE aggregate_orders_return(req, st, data)
          [] req.ep = "get_user_orders" -> get_user_orders_return(req, st, data)
          [] req.ep = "get_user_orders_direct" ->
                IF k = 1 THEN direct_user_return(req, st, data)
                ELSE direct_orders_return(req, st, data)
          [] OTHER -> forward_done(req, st)

\* the forwarder raises `e` into the try block of the handler that called it
Raise(req, st0, k, e) ==
    LET st == Logged(st0, Ev("raise", k, Empty, "", NoOut))
    IN  CASE req.ep = "get_users" -> get_users_except(req, st, e)
          [] req.ep = "get_user" -> get_user_except(req, st, e)
          [] req.ep = "get_orders" -> get_orders_except(req, st, e)
          [] req.ep = "create_order" -> create_order_except(req, st, e)
          [] req.ep = "aggregate_data" ->
                IF k = 1 THEN aggregate_users_except(req, st, e)
                ELSE aggregate_orders_except(req, st, e)
          [] req.ep = "get_user_orders" -> get_user_orders_except(req, st, e)
          [] req.ep = "get_user_orders_direct" ->
                get_user_orders_direct_except(req, st, e)
          [] OTHER -> forward_done(req, st)

----------------------------------------------------------------------------
(* make_authenticated_request, in three stages around its two external calls *)

\* lines 42-51: derive the audience, then call get_id_token
make_authenticated_request(req, st0, url, method, k) ==
    LET st == Logged(st0, Ev("call", k, url, method, NoOut))
    IN  IF AudienceRaises(url)
        THEN Raise(req, st, k, Exc("IndexError", 0))
        ELSE Suspended(st, "token",
                 [url |-> url, method |-> method, audience |-> Audience(url),
                  k |-> k])

\* variant: a failed token fetch is retried once
after_get_id_token_retry(req, st, c, ok) ==
    IF ~ok
    THEN IF Cardinality({ i \in 1..Len(st.log) :
                            st.log[i].ev = "get_id_token" /\ st.log[i].k = c.k }) < 2
         THEN Suspended(st, "token", c)
         ELSE Raise(req, st, c.k, Exc("AuthError", 0))
    ELSE IF c.method \in {"GET", "POST"} THEN Suspended(st, "http", c)
    ELSE Raise(req, st, c.k, Exc("ValueError", 0))

\* lines 51-63: get_id_token returned or raised; build the headers and
\* dispatch on the method
after_get_id_token(req, st, c, ok) ==
    IF ~ok THEN Raise(req, st, c.k, Exc("AuthError", 0))
    ELSE IF c.method \in {"GET", "POST"} THEN Suspended(st, "http", c)
    ELSE Raise(req, st, c.k, Exc("ValueError", 0))

TokenOut(ok) == Out(IF ok THEN "token" ELSE "failure", 0, FALSE, "")

HttpFailure == Out("failure", 0, FALSE, "")

\* what requests.get / requests.post may produce for `url`
HttpOutcomes(url) ==
    IF ~HasScheme(url) THEN {HttpFailure}
    ELSE {HttpFailure}
         \cup { Out("response", s, FALSE, "") : s \in Statuses }
         \cup { Out("response", s, TRUE, d) : s \in Statuses, d \in Payloads }

\* lines 58-66: the request returned or raised; raise_for_status; json()
after_request(req, st, c, out) ==
    IF out.kind = "failure" THEN Raise(req, st, c.k, Exc("ConnectionError", 0))
    ELSE IF RaisesForStatus(out.status)
         THEN Raise(req, st, c.k, Exc("HTTPError", out.status))
    ELSE IF ~out.json THEN Raise(req, st, c.k, Exc("JSONDecodeError", 0))
    ELSE Return(req, st, c.k, out.data)

----------------------------------------------------------------------------
(* The handlers, from the route to their first external call or response *)

health(req, st) ==
    Finish(st, 200,
           [service |-> "gateway-service", status |-> "healthy",
            mesh |-> [user_service |-> IF Configured(USER_SERVICE_URL)
                                       THEN "internal" ELSE "not configured",
                      order_service |-> IF Configured(ORDER_SERVICE_URL)
                                        THEN "internal" ELSE "not configured"]])

get_users(req, st) ==
    IF ~Configured(USER_SERVICE_URL)
    THEN Finish(st, 500, [error |-> Msg("USER_SERVICE_URL not configured", "", NoExc)])
    ELSE make_authenticated_request(req, st,
             USER_SERVICE_URL \o <<"/", "users">>, "GET", 1)

get_user(req, st) ==
    IF ~Configured(USER_SERVICE_URL)
    THEN Finish(st, 500, [error |-> Msg("USER_SERVICE_URL not configured", "", NoExc)])
    ELSE make_authenticated_request(req, st,
             USER_SERVICE_URL \o <<"/", "users", "/", req.id>>, "GET", 1)

get_orders(req, st) ==
    IF ~Configured(ORDER_SERVICE_URL)
    THEN Finish(st, 500, [error |-> Msg("ORDER_SERVICE_URL not configured", "", NoExc)])
    ELSE make_authenticated_request(req, st,
             ORDER_SERVICE_URL \o <<"/", "orders">>, "GET", 1)

\* request.get_json() runs inside the try block and raises on a malformed body
create_order(req, st) ==
    IF ~Configured(ORDER_SERVICE_URL)
    THEN Finish(st, 500, [error |-> Msg("ORDER_SERVICE_URL not configured", "", NoExc)])
    ELSE IF req.body = "malformed"
         THEN create_order_except(req, st, Exc("BadRequest", 400))
         ELSE make_authenticated_request(req, st,
                  ORDER_SERVICE_URL \o <<"/", "orders">>, "POST", 1)

\* aggregate_data, lines 180-199
aggregate_data(req, st0) ==
    LET st == [st0 EXCEPT !.result =
                  [source |-> "gateway-service (Python)",
                   aggregated_data |-> Empty]]
    IN  IF Configured(USER_SERVICE_URL)
        THEN make_authenticated_request(req, st,
                 USER_SERVICE_URL \o <<"/", "users">>, "GET", 1)
        ELSE aggregate_orders(req,
                 [st EXCEPT !.errors =
                     Append(@, Msg("USER_SERVICE_URL not configured", "", NoExc))])

get_user_orders(req, st0) ==
    LET st == [st0 EXCEPT !.result =
                  [source |-> "gateway-service (Python)",
                   workflow |-> "user-orders-mesh"]]
    IN  IF ~Configured(USER_SERVICE_URL)
        THEN Finish(st, 500,
                    [error |-> Msg("USER_SERVICE_URL not configured", "", NoExc)])
        ELSE make_authenticated_request(req, st,
                 USER_SERVICE_URL \o <<"/", "users", "/", req.id, "/", "orders">>,
                 "GET", 1)

\* variant: only USER_SERVICE_URL is checked before the first call
get_user_orders_direct_user_only(req, st0) ==
    LET st == [st0 EXCEPT !.result =
                  [source |-> "gateway-service (Python)",
                   workflow |-> "user-orders-direct"]]
    IN  IF ~Configured(USER_SERVICE_URL)
        THEN Finish(st, 500, [error |-> Msg("Services not configured", "", NoExc)])
        ELSE make_authenticated_request(req, st,
                 USER_SERVICE_URL \o <<"/", "users", "/", req.id>>, "GET", 1)

\* get_user_orders_direct, lines 270-281
get_user_orders_direct(req, st0) ==
    LET st == [st0 EXCEPT !.result =
                  [source |-> "gateway-service (Python)",
                   workflow |-> "user-orders-direct"]]
    IN  IF ~Configured(USER_SERVICE_URL) \/ ~Configured(ORDER_SERVICE_URL)
        THEN Finish(st, 500, [error |-> Msg("Services not configured", "", NoExc)])
        ELSE make_authenticated_request(req, st,
                 USER_SERVICE_URL \o <<"/", "users", "/", req.id>>, "GET", 1)

\* Flask's routing table
Handle(req, st) ==
    CASE req.ep = "health" -> health(req, st)
      [] req.ep = "get_users" -> get_users(req, st)
      [] req.ep = "get_user" -> get_user(req, st)
      [] req.ep = "get_orders" -> get_orders(req, st)
      [] req.ep = "create_order" -> create_order(req, st)
      [] req.ep = "aggregate_data" -> aggregate_data(req, st)
      [] req.ep = "get_user_orders" -> get_user_orders(req, st)
      [] req.ep = "get_user_orders_direct" -> get_user_orders_direct(req, st)

\* the inbound requests the routes accept
Req(ep, id, body) == [ep |-> ep, id |-> id, body |-> body]

Requests ==
    { Req(ep, "", "absent") :
        ep \in {"health", "get_users", "get_orders", "aggregate_data"} }
    \cup { Req("create_order", "", b) : b \in Bodies }
    \cup { Req(ep, id, "absent") :
             ep \in {"get_user", "get_user_orders", "get_user_orders_direct"},
             id \in UserIds }

ForwardReq == Req("forward", "", "absent")

\* URLs a direct caller hands to the forwarder: every base followed by
\* every path, and two values without a scheme
ForwardUrls ==
    { b \o p : b \in Bases, p \in Paths }
    \cup { <<"svc.run.app">>, <<"svc.run.app", "/", "users">> }

----------------------------------------------------------------------------
(* Actions *)

Fresh == Locals(Empty, Empty, Empty)

Apply(ns) ==
    /\ pc' = ns.pc
    /\ call' = ns.call
    /\ result' = ns.result
    /\ errors' = ns.errors
    /\ response' = ns.response
    /\ log' = ns.log

Init ==
    /\ USER_SERVICE_URL \in ConfigUrls
    /\ ORDER_SERVICE_URL \in ConfigUrls
    /\ request = Req("", "", "absent")
    /\ pc = "idle"
    /\ call = NoCall
    /\ result = Empty
    /\ errors = Empty
    /\ response = NoResponse
    /\ log = Empty

\* an inbound request is routed to its handler, which runs to its first
\* external call or to its response
Request ==
    /\ pc \in {"idle", "done"}
    /\ \E req \in Requests :
          /\ request' = req
          /\ Apply(Handle(req, Fresh))
    /\ UNCHANGED <<USER_SERVICE_URL, ORDER_SERVICE_URL>>

\* a direct call of make_authenticated_request(url, method)
Invoke ==
    /\ pc \in {"idle", "done"}
    /\ \E url \in ForwardUrls, method \in Methods :
          /\ request' = ForwardReq
          /\ Apply(make_authenticated_request(ForwardReq, Fresh, url, method, 1))
    /\ UNCHANGED <<USER_SERVICE_URL, ORDER_SERVICE_URL>>

\* get_id_token(audience) returns a token or raises
TokenFetch ==
    /\ pc = "token"
    /\ \E ok \in BOOLEAN :
          Apply(after_get_id_token(request,
                    Locals(result, errors,
                           Append(log, Ev("get_id_token", call.k, call.audience,
                                          "", TokenOut(ok)))),
                    call, ok))
    /\ UNCHANGED <<USER_SERVICE_URL, ORDER_SERVICE_URL, request>>

\* requests.get / requests.post returns a response or raises
HttpRequest ==
    /\ pc = "http"
    /\ \E out \in HttpOutcomes(call.url) :
          Apply(after_request(request,
                    Locals(result, errors,
                           Append(log, Ev("requests", call.k, call.url,
                                          call.method, out))),
                    call, out))
    /\ UNCHANGED <<USER_SERVICE_URL, ORDER_SERVICE_URL, request>>

Next == Request \/ TokenFetch \/ HttpRequest

Spec == Init /\ [][Next]_vars

\* direct calls of the forwarder, which reads neither global
InitForward == Init /\ USER_SERVICE_URL = Empty /\ ORDER_SERVICE_URL = Empty

NextForward == Invoke \/ TokenFetch \/ HttpRequest

SpecForward == InitForward /\ [][NextForward]_vars

----------------------------------------------------------------------------
(* Reading the log *)

Idx == 1..Len(log)

Done(ep) == pc = "done" /\ request.ep = ep

\* the handler called the forwarder for its call k
Issued(k) == \E i \in Idx : log[i].ev = "call" /\ log[i].k = k
CallEvent(k) == log[CHOOSE i \in Idx : log[i].ev = "call" /\ log[i].k = k]

\* the forwarder returned or raised for call k
Ended(k) == \E i \in Idx : log[i].ev \in {"return", "raise"} /\ log[i].k = k

TokenFetches(k) == { i \in Idx : log[i].ev = "get_id_token" /\ log[i].k = k }
HttpRequests(k) == { i \in Idx : log[i].ev = "requests" /\ log[i].k = k }

TokenFailed(k) == \E i \in TokenFetches(k) : log[i].out.kind = "failure"
NetworkFailed(k) == \E i \in HttpRequests(k) : log[i].out.kind = "failure"
Responded(k, status) ==
    \E i \in HttpRequests(k) :
        log[i].out.kind = "response" /\ log[i].out.status = status
NonJson(k) ==
    \E i \in HttpRequests(k) : log[i].out.kind = "response" /\ ~log[i].out.json

\* the downstream service answered call k with a 2xx status and a JSON body
Succeeded(k) ==
    \E i \in HttpRequests(k) :
        /\ log[i].out.kind = "response"
        /\ 200 <= log[i].out.status /\ log[i].out.status <= 299
        /\ log[i].out.json

Has(dict, key) == key \in DOMAIN dict

NotFound(id) == [error |-> Msg("User {user_id} not found", id, NoExc)]

----------------------------------------------------------------------------
(* Claims *)

\* C1: GET /api/aggregate responds 200 for every configuration and every
\* outcome of each forwarder call; no failure changes the status code.
C1_AggregateAlways200 ==
    Done("aggregate_data") => response.status = 200

\* C1 witness: the users call lost its token fetch and the orders call got a
\* 503, and the response is out.
C1_Witness ==
    /\ Done("aggregate_data")
    /\ TokenFailed(1)
    /\ Responded(2, 503)
    /\ response.status = 200

\* C2: `users` (resp. `orders`) is in aggregated_data exactly when that call
\* succeeded; `errors` holds one entry per source that did not succeed, the
\* users entry first, and is absent when both succeeded.
C2_AggregateBody ==
    Done("aggregate_data") =>
        LET body == response.body
            ad == body.aggregated_data
            errs == IF Has(body, "errors") THEN body.errors ELSE Empty
            nUsers == IF Succeeded(1) THEN 0 ELSE 1
            nOrders == IF Succeeded(2) THEN 0 ELSE 1
        IN  /\ Has(ad, "users") <=> Succeeded(1)
            /\ Has(ad, "orders") <=> Succeeded(2)
            /\ Len(errs) = nUsers + nOrders
            /\ Has(body, "errors") <=> nUsers + nOrders > 0
            /\ ~Succeeded(1) =>
                 errs[1].text \in {"User service error: {str(e)}",
                                   "USER_SERVICE_URL not configured"}
            /\ ~Succeeded(2) =>
                 errs[Len(errs)].text \in {"Order service error: {str(e)}",
                                           "ORDER_SERVICE_URL not configured"}

\* C2 witness: the users call succeeded and the orders call failed.
C2_Witness ==
    /\ Done("aggregate_data")
    /\ Succeeded(1)
    /\ Responded(2, 500)
    /\ Has(response.body.aggregated_data, "users")
    /\ Len(response.body.errors) = 1

C5_GetUserMapping ==
    Done("get_user") =>
        /\ Responded(1, 404) => response.status = 404
        /\ (\E s \in Statuses : (s < 200 \/ s > 299) /\ s # 404 /\ Responded(1, s))
              => response.status = 500

\* the handler of `ep` needs a URL that is not configured
RequiredUnset(ep) ==
    CASE ep \in {"get_users", "get_user", "get_user_orders"} ->
            ~Configured(USER_SERVICE_URL)
      [] ep \in {"get_orders", "create_order"} -> ~Configured(ORDER_SERVICE_URL)
      [] ep \in {"aggregate_data", "get_user_orders_direct"} ->
            ~Configured(USER_SERVICE_URL) \/ ~Configured(ORDER_SERVICE_URL)
      [] OTHER -> FALSE

NotConfiguredMessages ==
    {"USER_SERVICE_URL not configured", "ORDER_SERVICE_URL not configured",
     "Services not configured"}

\* no token fetch and no outbound HTTP request was made
NoCollaboratorCalls ==
    \A i \in Idx : log[i].ev \notin {"get_id_token", "requests"}

FailsFast ==
    /\ response.status = 500
    /\ Has(response.body, "error")
    /\ response.body.error.text \in NotConfiguredMessages
    /\ NoCollaboratorCalls

\* C6 as stated: every handler with a required URL unset, /api/aggregate
\* included, responds 500 'not configured' and makes no token fetch and no
\* outbound request.
C6_Original ==
    (pc = "done" /\ RequiredUnset(request.ep)) => FailsFast

\* C6 amended: that holds for every handler but /api/aggregate, which
\* responds 200, records '<NAME> not configured' in `errors` for each unset
\* URL, makes no call to the service whose URL is unset and still calls the
\* other one when it is configured.
C6_FailFastExceptAggregate ==
    /\ (pc = "done" /\ request.ep # "aggregate_data" /\ RequiredUnset(request.ep))
          => FailsFast
    /\ (Done("aggregate_data") /\ RequiredUnset("aggregate_data")) =>
          /\ response.status = 200
          /\ Has(response.body, "errors")
          /\ ~Configured(USER_SERVICE_URL) =>
                /\ \A i \in Idx : log[i].k # 1
                /\ response.body.errors[1].text = "USER_SERVICE_URL not configured"
          /\ ~Configured(ORDER_SERVICE_URL) =>
                /\ \A i \in Idx : log[i].k # 2
                /\ response.body.errors[Len(response.body.errors)].text =
                       "ORDER_SERVICE_URL not configured"
          /\ Configured(USER_SERVICE_URL) => Issued(1)
          /\ Configured(ORDER_SERVICE_URL) => Issued(2)

\* C6 witness: /api/user-orders-direct with only ORDER_SERVICE_URL unset has
\* answered 500 without touching the User Service.
C6_Witness ==
    /\ Done("get_user_orders_direct")
    /\ Configured(USER_SERVICE_URL)
    /\ ~Configured(ORDER_SERVICE_URL)
    /\ response.status = 500
    /\ log = Empty

\* C7 as stated: an invocation of the forwarder on a well-formed URL that
\* has ended made exactly one token fetch and exactly one outbound HTTP
\* request, the token fetch first, whatever the outcome.
C7_Original ==
    \A k \in {1, 2} :
        (Ended(k) /\ ~AudienceRaises(CallEvent(k).target)) =>
            /\ Cardinality(TokenFetches(k)) = 1
            /\ Cardinality(HttpRequests(k)) = 1
            /\ \A t \in TokenFetches(k), h \in HttpRequests(k) : t < h

\* C7 amended: an invocation makes at most one token fetch and at most one
\* outbound HTTP request and retries neither; a request is only made after a
\* successful token fetch; once ended, it made one token fetch exactly when
\* the audience could be derived, and one HTTP request exactly when the token
\* fetch succeeded and the method is GET or POST.
C7_AtMostOnceInOrder ==
    \A k \in {1, 2} :
        /\ Cardinality(TokenFetches(k)) <= 1
        /\ Cardinality(HttpRequests(k)) <= 1
        /\ \A h \in HttpRequests(k) :
              \E t \in TokenFetches(k) : t < h /\ log[t].out.kind = "token"
        /\ Ended(k) =>
              /\ Cardinality(TokenFetches(k)) = 1
                    <=> ~AudienceRaises(CallEvent(k).target)
              /\ Cardinality(HttpRequests(k)) = 1
                    <=> /\ \E t \in TokenFetches(k) : log[t].out.kind = "token"
                        /\ CallEvent(k).method \in {"GET", "POST"}

\* C7 witness: a DELETE has ended after its one token fetch and no request.
C7_Witness ==
    /\ Done("forward")
    /\ CallEvent(1).method = "DELETE"
    /\ Cardinality(TokenFetches(1)) = 1
    /\ HttpRequests(1) = {}

DocumentedStatuses(ep) ==
    CASE ep \in {"health", "aggregate_data"} -> {200}
      [] ep \in {"get_users", "get_orders"} -> {200, 500}
      [] ep = "create_order" -> {201, 500}
      [] ep \in {"get_user", "get_user_orders", "get_user_orders_direct"} ->
            {200, 404, 500}

\* C9: whatever a forwarder call does (audience derivation error, token-fetch
\* failure, non-2xx, network failure, non-JSON body), the handler ends with a
\* JSON body and a status of its endpoint's documented set; POST /api/orders
\* answers 201 exactly when the downstream call succeeded; and a handler
\* that has not answered is never stuck.
C9_NoFailureEscapes ==
    /\ pc \in {"idle", "token", "http", "done"}
    /\ pc \in {"token", "http"} => ENABLED (TokenFetch \/ HttpRequest)
    /\ pc = "done" =>
          /\ response.status \in DocumentedStatuses(request.ep)
          /\ DOMAIN response.body # {}
          /\ request.ep = "create_order" =>
                (response.status = 201 <=> Succeeded(1))

\* C9 witness: USER_SERVICE_URL holds no scheme, audience derivation raised
\* inside GET /api/users and the handler answered 500.
C9_Witness ==
    /\ Done("get_users")
    /\ Issued(1)
    /\ TokenFetches(1) = {}
    /\ response.status = 500
    /\ response.body.error.exc.type = "IndexError"

\* C10: in GET /api/user-orders-direct/{id} a 404 from either call gives 404
\* with {"error": "User {id} not found"}, the user payload fetched by the
\* first call is dropped, and no response holds `user` without `orders`.
C10_Direct404 ==
    Done("get_user_orders_direct") =>
        /\ (Responded(1, 404) \/ Responded(2, 404)) =>
              response.status = 404 /\ response.body = NotFound(request.id)
        /\ ~(Has(response.body, "user") /\ ~Has(response.body, "orders"))

\* C10 witness: the user was fetched, the Order Service answered 404.
C10_Witness ==
    /\ Done("get_user_orders_direct")
    /\ Succeeded(1)
    /\ Responded(2, 404)
    /\ Has(result, "user")
    /\ response.status = 404

====
